---- MODULE Spec2Model ----
(***************************************************************************)
(* SVNMerge: two scripts that cherry-pick a list of revisions into an svn  *)
(* working copy.                                                           *)
(*   strict variant       src/SVNMerge.py                                  *)
(*   interactive variant  src/SVMMergeWithTortoise.py                      *)
(* One run of main() is modelled as a sequential state machine whose steps *)
(* are the external commands: each command is issued by one action and     *)
(* returns (exit 0, exit non-zero, or could not be started) in another.    *)
(* Python's exception propagation through the nested try blocks of main()  *)
(* is modelled by Catcher.                                                 *)
(***************************************************************************)
EXTENDS Integers, Sequences, FiniteSets

VARIABLES
    variant,   \* which script runs: "strict" or "interactive"
    config,    \* the content of config.json next to the script
    wc0,       \* the working copy as it was before the run
    wc,        \* the working copy now
    pc,        \* position of main()
    ctx,       \* the try/except region the current call was made from
    i,         \* 1-based position of the loop `for revision in revisions`
    cmds,      \* external commands issued so far, with their outcome
    out,       \* lines printed so far
    exit       \* exit status of the process, NoExit while it runs

vars == <<variant, config, wc0, wc, pc, ctx, i, cmds, out, exit>>

----------------------------------------------------------------------------
(* Bounds *)

MaxRevs == 2        \* longest revisions list in config.json
MaxRevision == 2    \* largest revision number in config.json

NoExit == 0 - 1

----------------------------------------------------------------------------
(* JSON values found in the revisions list: integers or strings.           *)

IntRev(n) == [type |-> "int", n |-> n, s |-> ""]

StrRev(s) == [type |-> "str", n |-> 0, s |-> s]

\* decimal digit of Python's str(int)
Digit(d) ==
    CASE d = 0 -> "0" [] d = 1 -> "1" [] d = 2 -> "2" [] d = 3 -> "3"
      [] d = 4 -> "4" [] d = 5 -> "5" [] d = 6 -> "6" [] d = 7 -> "7"
      [] d = 8 -> "8" [] d = 9 -> "9"

RECURSIVE Decimal(_)
Decimal(n) == IF n < 10 THEN Digit(n) ELSE Decimal(n \div 10) \o Digit(n % 10)

\* str(revision) at the call of svn_merge
str(v) == IF v.type = "int" THEN Decimal(v.n) ELSE v.s

RevTokens == {IntRev(n) : n \in 1..MaxRevision} \cup {StrRev(Decimal(MaxRevision))}

RevLists == UNION {[1..n -> RevTokens] : n \in 0..MaxRevs}

----------------------------------------------------------------------------
(* config.json *)

FieldStates == {"missing", "empty", "set"}

FileStates == {"absent", "malformed", "notdict", "ok"}

\* Python truthiness of config.get(key) for a string field
Truthy(f) == f = "set"

\* config.get("revisions", [])
GetRevisions(c) == IF c.has_revisions THEN c.revisions ELSE <<>>

\* (mutant) the revisions list is not checked
ValidPlan_noRevisions(c) ==
    /\ Truthy(c.source_branch)
    /\ Truthy(c.target_branch)
    /\ Truthy(c.working_dir)

\* the condition of main's `if not (... and ... and ... and revisions)` negated
ValidPlan(c) ==
    /\ Truthy(c.source_branch)
    /\ Truthy(c.target_branch)
    /\ Truthy(c.working_dir)
    /\ Len(GetRevisions(c)) > 0

Configs ==
    {[file |-> f, source_branch |-> "set", target_branch |-> "set",
      working_dir |-> "set", has_revisions |-> TRUE, revisions |-> <<IntRev(1)>>]
        : f \in FileStates \ {"ok"}}
    \cup
    {[file |-> "ok", source_branch |-> s, target_branch |-> t, working_dir |-> w,
      has_revisions |-> h, revisions |-> r]
        : s \in FieldStates, t \in FieldStates, w \in FieldStates,
          h \in {TRUE}, r \in RevLists}
    \cup
    {[file |-> "ok", source_branch |-> s, target_branch |-> t, working_dir |-> w,
      has_revisions |-> FALSE, revisions |-> <<>>]
        : s \in FieldStates, t \in FieldStates, w \in FieldStates}

----------------------------------------------------------------------------
(* Output lines and command log *)

Line(m, a) == [msg |-> m, arg |-> a]

Cmd(op, a) == [op |-> op, arg |-> a, res |-> "running"]

Say(o, m, a) == Append(o, Line(m, a))

\* the outcome of the command in flight is recorded in the log
Returned(cs, o) == [cs EXCEPT ![Len(cs)].res = o]

----------------------------------------------------------------------------
(* The working copy.  branch/base are what `svn switch` and `svn update`   *)
(* set; pre is a local modification that was there before the run;         *)
(* applied[k] is what the merge of list entry k left in the working copy.  *)

\* The working copies a run starts from: on another branch than the target
\* and not up to date (main never reads the working copy, so one such
\* start stands for the others), with or without a local modification.
WorkingCopies(n) ==
    [branch : {"other"}, base : {"old"}, pre : BOOLEAN,
     applied : {[k \in 1..n |-> "none"]}]

Outcomes == {"ok", "fail", "oserror"}

ResolveOutcomes == {"ok", "fail", "notfound", "oserror"}

\* svn switch <target_branch>: a failed switch may stop half way
SwitchEffect(w, o) ==
    CASE o = "ok" -> {[w EXCEPT !.branch = "target"]}
      [] o = "fail" -> {w, [w EXCEPT !.branch = "target"]}
      [] OTHER -> {w}

\* svn update --set-depth infinity
UpdateEffect(w, o) ==
    CASE o = "ok" -> {[w EXCEPT !.base = "head"]}
      [] o = "fail" -> {w, [w EXCEPT !.base = "head"]}
      [] OTHER -> {w}

\* svn merge -c <revision> <source_branch> --accept theirs-full
MergeEffect(w, k, o) ==
    CASE o = "ok" -> {[w EXCEPT !.applied[k] = "full"]}
      [] o = "fail" -> {w, [w EXCEPT !.applied[k] = "partial"]}
      [] OTHER -> {w}

\* TortoiseProc.exe /command:resolve: the operator may or may not resolve
ResolveEffect(w, k, o) ==
    IF o = "ok" /\ w.applied[k] = "partial"
    THEN {w, [w EXCEPT !.applied[k] = "full"]}
    ELSE {w}

\* (mutant) svn revert . without -R: changes below the top directory stay
RevertEffect_notRecursive(w, o) ==
    IF o = "ok"
    THEN {w, [w EXCEPT !.pre = FALSE,
                       !.applied = [k \in DOMAIN w.applied |-> "none"]]}
    ELSE {w}

\* (mutant) only what the merges of this run changed is reverted
RevertEffect_runLocalOnly(w, o) ==
    IF o = "ok"
    THEN {[w EXCEPT !.applied = [k \in DOMAIN w.applied |-> "none"]]}
    ELSE {w}

\* svn revert -R . : discards every local modification of the working copy
RevertEffect(w, o) ==
    IF o = "ok"
    THEN {[w EXCEPT !.pre = FALSE,
                    !.applied = [k \in DOMAIN w.applied |-> "none"]]}
    ELSE {w}

----------------------------------------------------------------------------
(* Exceptions.  A region is where a call is made from:                     *)
(*   outer_try     the body of main's outer try (switch, update)           *)
(*   inner_try     the body of the inner try of the loop (svn_merge and    *)
(*                 everything it calls)                                    *)
(*   inner_except  the body of the inner `except Exception`                *)
(*   outer_except  the body of the outer `except Exception`                *)
(* Catcher gives the except clause that an Exception raised in a region    *)
(* reaches, "none" when it leaves main uncaught.                           *)

\* (mutant) switch and update outside the try
Catcher_noOuterTry(where) ==
    CASE where = "inner_try" -> "inner_except"
      [] where = "inner_except" -> "outer_except"
      [] OTHER -> "none"

Catcher(where) ==
    CASE where = "inner_try" -> "inner_except"
      [] where = "outer_try" -> "outer_except"
      [] where = "inner_except" -> "outer_except"
      [] OTHER -> "none"

revisions == GetRevisions(config)

\* (mutant) the end of the list is tested one position late
LoopEnded_offByOne(k) == k > Len(revisions) + 1

\* the for loop is over when position k is past the end of the list
LoopEnded(k) == k > Len(revisions)

\* sys.exit(n), and the interpreter's exit on an uncaught exception
Exits(n) ==
    /\ pc' = "done"
    /\ exit' = n

\* (mutant) the except clauses revert without printing anything
Raise_silent(where, o) ==
    LET h == Catcher(where) IN
    IF h \in {"inner_except", "outer_except"}
    THEN /\ out' = o
         /\ pc' = "revert"
         /\ ctx' = h
         /\ exit' = exit
    ELSE /\ out' = o
         /\ ctx' = ctx
         /\ Exits(1)

\* an Exception is raised in region `where`, o being the output so far
Raise(where, o) ==
    LET h == Catcher(where) IN
    CASE h = "inner_except" ->
           /\ out' = Say(Say(o, "Failed to merge revision", str(revisions[i])),
                         "Reverting all changes...", "")
           /\ pc' = "revert"
           /\ ctx' = h
           /\ exit' = exit
      [] h = "outer_except" ->
           /\ out' = Say(Say(o, "An error occurred", ""),
                         "Reverting all changes...", "")
           /\ pc' = "revert"
           /\ ctx' = h
           /\ exit' = exit
      [] OTHER ->
           /\ out' = o
           /\ ctx' = ctx
           /\ Exits(1)

----------------------------------------------------------------------------
(* Initial states *)

Init ==
    /\ variant \in {"strict", "interactive"}
    /\ config \in Configs
    /\ wc0 \in WorkingCopies(Len(GetRevisions(config)))
    /\ wc = wc0
    /\ pc = "load"
    /\ ctx = "main"
    /\ i = 0
    /\ cmds = <<>>
    /\ out = <<>>
    /\ exit = NoExit

----------------------------------------------------------------------------
(* main(), up to the outer try *)

load_config ==
    /\ pc = "load"
    /\ CASE config.file = "absent" ->
              /\ out' = Say(out, "Configuration file not found", "")
              /\ Exits(1)
         [] config.file = "malformed" ->
              /\ out' = Say(out, "Error parsing configuration file", "")
              /\ Exits(1)
         [] OTHER ->
              /\ out' = out
              /\ pc' = "validate"
              /\ exit' = exit
    /\ UNCHANGED <<variant, config, wc0, wc, ctx, i, cmds>>

\* lines 72-79: config.get on a JSON value that is no object raises
\* AttributeError outside any try
main_validate ==
    /\ pc = "validate"
    /\ CASE config.file = "notdict" ->
              /\ out' = out
              /\ ctx' = ctx
              /\ Exits(1)
         [] ~ValidPlan(config) ->
              /\ out' = Say(out, "Invalid configuration", "")
              /\ ctx' = ctx
              /\ Exits(1)
         [] OTHER ->
              /\ out' = out
              /\ pc' = "switch"
              /\ ctx' = "outer_try"
              /\ exit' = exit
    /\ UNCHANGED <<variant, config, wc0, wc, i, cmds>>

----------------------------------------------------------------------------
(* The outer try: switch and update *)

svn_switch ==
    /\ pc = "switch"
    /\ out' = Say(out, "Switching to branch", "")
    /\ cmds' = Append(cmds, Cmd("switch", ""))
    /\ pc' = "switch_wait"
    /\ UNCHANGED <<variant, config, wc0, wc, ctx, i, exit>>

\* run_command returns or raises (RuntimeError on a non-zero exit, OSError
\* when subprocess.run cannot start svn): both are Exceptions in outer_try
svn_switch_returns ==
    /\ pc = "switch_wait"
    /\ \E o \in Outcomes :
        /\ cmds' = Returned(cmds, o)
        /\ wc' \in SwitchEffect(wc, o)
        /\ IF o = "ok"
           THEN /\ pc' = "update"
                /\ UNCHANGED <<ctx, out, exit>>
           ELSE Raise(ctx, out)
    /\ UNCHANGED <<variant, config, wc0, i>>

svn_update ==
    /\ pc = "update"
    /\ out' = Say(out, "Updating working directory", "")
    /\ cmds' = Append(cmds, Cmd("update", ""))
    /\ pc' = "update_wait"
    /\ UNCHANGED <<variant, config, wc0, wc, ctx, i, exit>>

\* after a successful update the loop starts at the first list entry
svn_update_returns ==
    /\ pc = "update_wait"
    /\ \E o \in Outcomes :
        /\ cmds' = Returned(cmds, o)
        /\ wc' \in UpdateEffect(wc, o)
        /\ IF o = "ok"
           THEN /\ pc' = IF LoopEnded(1) THEN "finish" ELSE "merge"
                /\ i' = 1
                /\ ctx' = IF LoopEnded(1) THEN "outer_try" ELSE "inner_try"
                /\ UNCHANGED <<out, exit>>
           ELSE /\ Raise(ctx, out)
                /\ i' = i
    /\ UNCHANGED <<variant, config, wc0>>

----------------------------------------------------------------------------
(* The loop `for revision in revisions` *)

\* (mutant) the list walked from its end
RevisionAt_reversed(k) == revisions[Len(revisions) + 1 - k]

\* the list entry the loop is at
RevisionAt(k) == revisions[k]

\* the revision argument of the merge command for list entry k
MergeArg(k) == str(RevisionAt(k))

\* (mutant) the loop steps over an entry
NextPosition_skip(k) == k + 2

\* the loop's next position after the step for list entry k
NextPosition(k) == k + 1

\* (mutant) the strict script hands over to TortoiseSVN too
OnMergeError_bothVariants(v, o) ==
    IF o = "fail" THEN "resolve" ELSE "raise"

\* (mutant) `except Exception` in svn_merge: a merge that could not be
\* started is handed over as well
OnMergeError_anyException(v, o) ==
    IF v = "interactive" THEN "resolve" ELSE "raise"

\* what svn_merge does with outcome o of the merge command:
\*   strict variant (SVNMerge.py 55-61): no handler, the error propagates;
\*   interactive variant (SVMMergeWithTortoise.py 74-84): `except
\*   RuntimeError` hands over to TortoiseSVN, any other error propagates
OnMergeError(v, o) ==
    IF v = "interactive" /\ o = "fail" THEN "resolve" ELSE "raise"

\* (mutant) a non-zero exit of the tool is only reported
OnResolveResult_failIgnored(o) ==
    CASE o \in {"ok", "fail"} -> "return"
      [] o = "notfound" -> "existWithError"
      [] OTHER -> "raise"

\* (mutant) a missing tool is only reported
OnResolveResult_notfoundIgnored(o) ==
    CASE o \in {"ok", "notfound"} -> "return"
      [] o = "fail" -> "existWithError"
      [] OTHER -> "raise"

\* (mutant) the tool's exit 0 is taken for a failure
OnResolveResult_okAborts(o) ==
    CASE o \in {"ok", "notfound", "fail"} -> "existWithError"
      [] OTHER -> "raise"

\* what svn_resolve_with_tortoise does with outcome o of TortoiseProc.exe:
\*   exit 0 returns; FileNotFoundError and CalledProcessError are caught
\*   and lead to existWithError; any other OSError propagates
OnResolveResult(o) ==
    CASE o = "ok" -> "return"
      [] o \in {"notfound", "fail"} -> "existWithError"
      [] OTHER -> "raise"

\* the step for list entry i completed: print, then next entry or the end
StepDone(o) ==
    /\ out' = Say(o, "Successfully merged revision", str(RevisionAt(i)))
    /\ i' = NextPosition(i)
    /\ pc' = IF LoopEnded(NextPosition(i)) THEN "finish" ELSE "merge"
    /\ ctx' = IF LoopEnded(NextPosition(i)) THEN "outer_try" ELSE "inner_try"
    /\ exit' = exit

svn_merge ==
    /\ pc = "merge"
    /\ i <= Len(revisions)
    /\ out' = Say(out, "Merging revision", MergeArg(i))
    /\ cmds' = Append(cmds, Cmd("merge", MergeArg(i)))
    /\ pc' = "merge_wait"
    /\ UNCHANGED <<variant, config, wc0, wc, ctx, i, exit>>

svn_merge_returns ==
    /\ pc = "merge_wait"
    /\ \E o \in Outcomes :
        /\ cmds' = Returned(cmds, o)
        /\ wc' \in MergeEffect(wc, i, o)
        /\ CASE o = "ok" -> StepDone(out)
             [] o # "ok" /\ OnMergeError(variant, o) = "resolve" ->
                  /\ out' = Say(Say(out, "Conflict detected during merge of revision",
                                    MergeArg(i)),
                                "Launching TortoiseSVN for conflict resolution...", "")
                  /\ pc' = "resolve"
                  /\ UNCHANGED <<ctx, i, exit>>
             [] OTHER ->
                  /\ Raise(ctx, out)
                  /\ i' = i
    /\ UNCHANGED <<variant, config, wc0>>

svn_resolve_with_tortoise ==
    /\ pc = "resolve"
    /\ out' = Say(out, "Launching TortoiseSVN to resolve conflicts...", "")
    /\ cmds' = Append(cmds, Cmd("tortoise", ""))
    /\ pc' = "resolve_wait"
    /\ UNCHANGED <<variant, config, wc0, wc, ctx, i, exit>>

svn_resolve_returns ==
    /\ pc = "resolve_wait"
    /\ \E o \in ResolveOutcomes :
        /\ cmds' = Returned(cmds, o)
        /\ wc' \in ResolveEffect(wc, i, o)
        /\ CASE OnResolveResult(o) = "return" ->
                  StepDone(Say(out, "Please resolve conflicts using TortoiseSVN", ""))
             [] OnResolveResult(o) = "existWithError" ->
                  /\ out' = Say(out, IF o = "notfound" THEN "TortoiseSVN not found"
                                     ELSE "Error launching TortoiseSVN", "")
                  /\ pc' = "revert"
                  /\ UNCHANGED <<ctx, i, exit>>
             [] OTHER ->
                  /\ Raise(ctx, out)
                  /\ i' = i
    /\ UNCHANGED <<variant, config, wc0>>

\* line 97 / 119, then main returns and the process exits 0
main_finish ==
    /\ pc = "finish"
    /\ out' = Say(out, "All revisions processed!", "")
    /\ Exits(0)
    /\ UNCHANGED <<variant, config, wc0, wc, ctx, i, cmds>>

----------------------------------------------------------------------------
(* Rollback: svn_revert, then sys.exit(1) *)

svn_revert ==
    /\ pc = "revert"
    /\ out' = Say(out, "Reverting all changes in the working directory...", "")
    /\ cmds' = Append(cmds, Cmd("revert", ""))
    /\ pc' = "revert_wait"
    /\ UNCHANGED <<variant, config, wc0, wc, ctx, i, exit>>

\* (mutant) no sys.exit(1) after svn_revert in the inner except clause: the
\* clause ends and the loop goes on with the next list entry
OnRevertDone_innerFallsThrough(where) ==
    IF where = "inner_except" THEN "continue" ELSE "exit"

\* what follows a revert that exited 0, called from region `where`:
\* sys.exit(1) in both except clauses of main and in existWithError
OnRevertDone(where) == "exit"

\* exit 0: sys.exit(1) follows; SystemExit is no Exception, so no except
\* clause of main catches it.  Otherwise the error of run_command is raised
\* in the region the revert was called from.
svn_revert_returns ==
    /\ pc = "revert_wait"
    /\ \E o \in Outcomes :
        /\ cmds' = Returned(cmds, o)
        /\ wc' \in RevertEffect(wc, o)
        /\ CASE o = "ok" /\ OnRevertDone(ctx) = "exit" ->
                  /\ Exits(1)
                  /\ UNCHANGED <<ctx, out, i>>
             [] o = "ok" /\ OnRevertDone(ctx) # "exit" ->
                  /\ i' = NextPosition(i)
                  /\ pc' = IF LoopEnded(NextPosition(i)) THEN "finish" ELSE "merge"
                  /\ ctx' = IF LoopEnded(NextPosition(i)) THEN "outer_try" ELSE "inner_try"
                  /\ UNCHANGED <<out, exit>>
             [] OTHER ->
                  /\ Raise(ctx, out)
                  /\ i' = i
    /\ UNCHANGED <<variant, config, wc0>>

----------------------------------------------------------------------------

Next ==
    \/ load_config
    \/ main_validate
    \/ svn_switch
    \/ svn_switch_returns
    \/ svn_update
    \/ svn_update_returns
    \/ svn_merge
    \/ svn_merge_returns
    \/ svn_resolve_with_tortoise
    \/ svn_resolve_returns
    \/ svn_revert
    \/ svn_revert_returns
    \/ main_finish

Spec == Init /\ [][Next]_vars

\* subprocess.run blocks until the command exits: the steps of main
\* between two commands always happen, and a command in flight returns
\* only if the external process ends
CommandReturns ==
    \/ svn_switch_returns
    \/ svn_update_returns
    \/ svn_merge_returns
    \/ svn_resolve_returns
    \/ svn_revert_returns

ProgramStep ==
    \/ load_config
    \/ main_validate
    \/ svn_switch
    \/ svn_update
    \/ svn_merge
    \/ svn_resolve_with_tortoise
    \/ svn_revert
    \/ main_finish

\* The content of the working copy is never read by main, so the runs that
\* are followed to their end start from the pre-run working copy with a
\* local modification.
FairInit ==
    /\ Init
    /\ wc0.pre

\* the run under the assumption that every external command returns
FairSpec ==
    FairInit /\ [][Next]_vars /\ WF_vars(ProgramStep) /\ WF_vars(CommandReturns)

----------------------------------------------------------------------------
(* Vocabulary of the properties *)

Idx == 1..Len(cmds)

Issued(op) == {k \in Idx : cmds[k].op = op}

Count(op) == Cardinality(Issued(op))

IsMerge(c) == c.op = "merge"

\* the merge commands of the run, in the order they were issued
Merges == SelectSeq(cmds, IsMerge)

\* list position of the merge command logged at index k
PositionOf(k) == Len(SelectSeq(SubSeq(cmds, 1, k), IsMerge))

Failed(k) == cmds[k].res \notin {"ok", "running"}

Terminated == pc = "done"

\* config.json is a JSON object with the four fields present and non-empty
PlanIsValid ==
    /\ config.file = "ok"
    /\ config.source_branch = "set"
    /\ config.target_branch = "set"
    /\ config.working_dir = "set"
    /\ config.has_revisions
    /\ Len(config.revisions) >= 1

N == Len(config.revisions)

RevertSucceeded == \E k \in Issued("revert") : cmds[k].res = "ok"

NoLocalModifications == ~wc.pre /\ \A k \in DOMAIN wc.applied : wc.applied[k] = "none"

NoRunLocalModifications == \A k \in DOMAIN wc.applied : wc.applied[k] = "none"

----------------------------------------------------------------------------
(* C1 (as claimed): strict variant, once switch, update or the merge at    *)
(* list position p has failed and the run is over, revert was invoked      *)
(* exactly once, the exit status is 1 and no merge command was issued for  *)
(* a later position.                                                       *)
C1_StrictFailureRevertsOnce ==
    \A k \in Idx :
        ( /\ variant = "strict"
          /\ Terminated
          /\ cmds[k].op \in {"switch", "update", "merge"}
          /\ Failed(k) )
        => /\ Count("revert") = 1
           /\ exit = 1
           /\ \A j \in Idx : j > k => cmds[j].op # "merge"

(* C2: in both variants, while switch, update and every merge command      *)
(* exits 0, revert is never invoked, and when the run of a valid plan of N *)
(* revisions is over its exit status is 0 and exactly N merge commands     *)
(* were issued.                                                            *)
AllSucceeded ==
    \A k \in Idx : cmds[k].op \in {"switch", "update", "merge"} => ~Failed(k)

C2_AllSucceedExitsZero ==
    (PlanIsValid /\ AllSucceeded)
    => /\ Count("revert") = 0
       /\ Count("tortoise") = 0
       /\ Len(Merges) <= N
       /\ Terminated => (exit = 0 /\ Len(Merges) = N)

C2_Witness ==
    /\ Terminated
    /\ PlanIsValid
    /\ AllSucceeded
    /\ N = 2
    /\ Len(Merges) = 2
    /\ exit = 0

(* C3: when config.json is absent, unparsable or no object, or one of      *)
(* source_branch, target_branch, working_dir is missing or empty, or       *)
(* revisions is missing or empty, no command is ever issued, the working   *)
(* copy is untouched and the run ends with exit status 1.                  *)
C3_PlannerFailureIssuesNothing ==
    ~PlanIsValid
    => /\ cmds = <<>>
       /\ wc = wc0
       /\ pc \in {"load", "validate", "done"}
       /\ Terminated => exit = 1

C3_Witness ==
    /\ Terminated
    /\ exit = 1
    /\ config.file = "ok"
    /\ config.source_branch = "set"
    /\ config.target_branch = "set"
    /\ config.working_dir = "set"
    /\ config.has_revisions
    /\ config.revisions = <<>>

(* C4: the merge commands issued are, in order, the str() of the first     *)
(* entries of the revisions list as written: one per entry, not sorted,    *)
(* not deduplicated, none skipped; a run that exits 0 has issued one for   *)
(* every entry.                                                            *)
C4_MergesArePrefixOfList ==
    /\ Len(Merges) <= N
    /\ \A k \in 1..Len(Merges) : Merges[k].arg = str(config.revisions[k])
    /\ (Terminated /\ exit = 0) => Len(Merges) = N

C4_Witness ==
    /\ Terminated
    /\ config.revisions = <<IntRev(2), StrRev("2")>>
    /\ Len(Merges) = 2
    /\ Merges[1].arg = "2"
    /\ Merges[2].arg = "2"

(* C5: in both variants, a run that passed validation and ended with a     *)
(* non-zero exit status has invoked revert at least once.                  *)
C5_FailureImpliesRevert ==
    (PlanIsValid /\ Terminated /\ exit # 0) => Count("revert") >= 1

C5_Witness ==
    /\ PlanIsValid
    /\ Terminated
    /\ exit = 1
    /\ variant = "interactive"
    /\ \E k \in Issued("tortoise") : cmds[k].res = "oserror"
    /\ Count("revert") = 1

(* C6 (as claimed): after any failed run the working copy holds nothing    *)
(* that a merge of this run applied, fully or partially, whatever the      *)
(* external commands returned.                                             *)
C6_FailedRunLeavesNoRunLocalChange ==
    (Terminated /\ exit = 1) => NoRunLocalModifications

(* C6 (amended): after a failed run in which a revert command exited 0,    *)
(* the working copy holds nothing that a merge of this run applied.        *)
C6_RevertedRunLeavesNoRunLocalChange ==
    (Terminated /\ exit = 1 /\ RevertSucceeded) => NoRunLocalModifications

C6_Witness ==
    /\ Terminated
    /\ exit = 1
    /\ RevertSucceeded
    /\ N = 2
    /\ Len(Merges) = 2
    /\ Merges[1].res = "ok"
    /\ Merges[2].res = "fail"
    /\ NoRunLocalModifications

(* C7 (as claimed): after the rollback of a failed run the working copy's  *)
(* branch, base revision and local modifications are what they were before *)
(* the run (stated here for the rollbacks whose revert exited 0).          *)
C7_RollbackRestoresPreRunState ==
    (Terminated /\ exit = 1 /\ RevertSucceeded) => wc = wc0

(* C7 (amended): after a failed run in which a revert command exited 0,    *)
(* the working copy has no local modification at all, those that existed   *)
(* before the run included; its branch and base revision are not restored: *)
(* it is on the target branch once switch exited 0 and at the latest       *)
(* revision once update exited 0, and otherwise on the pre-run branch or   *)
(* base or the new one.                                                    *)
C7_RollbackOnlyDiscardsModifications ==
    (Terminated /\ exit = 1 /\ RevertSucceeded)
    => /\ NoLocalModifications
       /\ wc.branch \in {wc0.branch, "target"}
       /\ wc.base \in {wc0.base, "head"}
       /\ \A k \in Issued("switch") : cmds[k].res = "ok" => wc.branch = "target"
       /\ \A k \in Issued("update") : cmds[k].res = "ok" => wc.base = "head"

C7_Witness ==
    /\ Terminated
    /\ exit = 1
    /\ RevertSucceeded
    /\ wc0.pre
    /\ wc0.branch = "other"
    /\ wc0.base = "old"
    /\ Len(Merges) = 2
    /\ Merges[1].res = "ok"
    /\ wc = [wc0 EXCEPT !.pre = FALSE, !.branch = "target", !.base = "head"]

(* C8 (as claimed): in every terminal state of a run that passed           *)
(* validation either every revision of the plan is applied or the working  *)
(* copy is fully reverted, and no revision is left half-applied.           *)
C8_AllOrNothing ==
    (Terminated /\ PlanIsValid)
    => /\ \/ \A p \in 1..N : wc.applied[p] = "full"
          \/ NoRunLocalModifications
       /\ \A p \in 1..N : wc.applied[p] # "partial"

\* the merge command logged at index k failed and the tool then exited 0
HandedOver(k) ==
    /\ variant = "interactive"
    /\ cmds[k].res = "fail"
    /\ k < Len(cmds)
    /\ cmds[k + 1].op = "tortoise"
    /\ cmds[k + 1].res = "ok"

(* C8 (amended): in every terminal state of a run that passed validation,  *)
(* either the exit status is 0, revert was never invoked and every         *)
(* revision of the plan had its merge command exit 0 (it is then fully     *)
(* applied) or, in the interactive variant, fail and be followed by the    *)
(* tool exiting 0 (it is then as the operator left it, possibly            *)
(* half-applied); or the exit status is 1, revert was invoked, and the     *)
(* working copy has no local modification provided a revert exited 0.      *)
C8_DoneOrRolledBack ==
    (Terminated /\ PlanIsValid)
    => \/ /\ exit = 0
          /\ Count("revert") = 0
          /\ Len(Merges) = N
          /\ \A k \in Issued("merge") :
                \/ cmds[k].res = "ok" /\ wc.applied[PositionOf(k)] = "full"
                \/ HandedOver(k)
       \/ /\ exit = 1
          /\ Count("revert") >= 1
          /\ RevertSucceeded => NoLocalModifications

C8_Witness ==
    /\ Terminated
    /\ PlanIsValid
    /\ exit = 0
    /\ N = 2
    /\ wc.applied = <<"partial", "full">>

(* C9: interactive variant, when the merge command of list position p      *)
(* failed and the tool then exited 0, the next command is not revert but   *)
(* the merge of position p+1 if there is one, nothing is issued in         *)
(* between, and if nothing fails afterwards the run ends with exit status  *)
(* 0 having issued all N merges, also when the revision is still           *)
(* half-applied.                                                           *)
C9_ToolSuccessContinues ==
    \A k \in Issued("tortoise") :
        cmds[k].res = "ok"
        => /\ variant = "interactive"
           /\ cmds[k - 1].op = "merge" /\ cmds[k - 1].res = "fail"
           /\ k < Len(cmds)
                => /\ PositionOf(k) < N
                   /\ cmds[k + 1].op = "merge"
                   /\ cmds[k + 1].arg = str(config.revisions[PositionOf(k) + 1])
           /\ k = Len(cmds)
                => /\ i = PositionOf(k) + 1
                   /\ pc = (IF PositionOf(k) < N THEN "merge"
                            ELSE IF exit = NoExit THEN "finish" ELSE "done")
           /\ (Terminated /\ \A j \in Idx : j > k => ~Failed(j))
                => (exit = 0 /\ Len(Merges) = N)

C9_Witness ==
    /\ variant = "interactive"
    /\ Terminated
    /\ exit = 0
    /\ N = 2
    /\ Len(cmds) = 5
    /\ cmds[3].op = "merge" /\ cmds[3].res = "fail"
    /\ cmds[4].op = "tortoise" /\ cmds[4].res = "ok"
    /\ cmds[5].op = "merge" /\ cmds[5].res = "ok"
    /\ wc.applied[1] = "partial"

(* C10: interactive variant, when the merge command of list position p     *)
(* failed and the tool could not be found or exited non-zero, the next     *)
(* command is revert, no merge command is issued for a later position and  *)
(* the run ends with exit status 1.                                        *)
C10_ToolFailureRollsBack ==
    \A k \in Issued("tortoise") :
        cmds[k].res \in {"notfound", "fail"}
        => /\ variant = "interactive"
           /\ cmds[k - 1].op = "merge" /\ cmds[k - 1].res = "fail"
           /\ k = Len(cmds) => pc = "revert"
           /\ k < Len(cmds) => cmds[k + 1].op = "revert"
           /\ \A j \in Idx : j > k => cmds[j].op = "revert"
           /\ Len(Merges) = PositionOf(k)
           /\ Terminated => (exit = 1 /\ Count("revert") >= 1)

C10_Witness ==
    /\ variant = "interactive"
    /\ Terminated
    /\ exit = 1
    /\ N = 2
    /\ Len(cmds) = 5
    /\ cmds[3].op = "merge" /\ cmds[3].res = "fail"
    /\ cmds[4].op = "tortoise" /\ cmds[4].res = "notfound"
    /\ cmds[5].op = "revert" /\ cmds[5].res = "ok"

----------------------------------------------------------------------------
(* Output and commands side by side: every command is announced by one     *)
(* line printed right before it is issued, so the k-th announcing line of  *)
(* the output belongs to the k-th command of the log.                      *)

Announcements ==
    {"Switching to branch", "Updating working directory", "Merging revision",
     "Launching TortoiseSVN to resolve conflicts...",
     "Reverting all changes in the working directory..."}

ErrorReports ==
    {"Failed to merge revision", "An error occurred", "TortoiseSVN not found",
     "Error launching TortoiseSVN"}

LineIdx == 1..Len(out)

Announces(n) == out[n].msg \in Announcements

\* the indexes in the output of the announcing lines, in order
AnnouncingLines == SelectSeq([n \in LineIdx |-> n], Announces)

\* index in the output of the line that announced the command logged at k
AnnouncedAt(k) == AnnouncingLines[k]

IsSuccessLine(l) == l.msg = "Successfully merged revision"

SuccessLines == SelectSeq(out, IsSuccessLine)

IsSuccessfulMerge(c) == c.op = "merge" /\ c.res = "ok"

SuccessfulMerges == SelectSeq(cmds, IsSuccessfulMerge)

(* C11: in both variants every revert command is announced by the          *)
(* reverting notice of svn_revert, and between the previous command and    *)
(* that notice a line reporting the error that led to the revert was       *)
(* printed: error report first, reverting notice next, revert command      *)
(* last.                                                                   *)
C11_RevertIsAnnounced ==
    LET A == AnnouncingLines IN
    /\ Len(A) = Len(cmds)
    /\ \A k \in Issued("revert") :
        /\ k > 1
        /\ out[A[k]].msg = "Reverting all changes in the working directory..."
        /\ \E a \in (A[k - 1] + 1)..(A[k] - 1) : out[a].msg \in ErrorReports

C11_Witness ==
    /\ variant = "interactive"
    /\ Len(cmds) = 5
    /\ cmds[4].op = "tortoise" /\ cmds[4].res = "notfound"
    /\ cmds[5].op = "revert"
    /\ out[Len(out) - 1].msg = "TortoiseSVN not found"
    /\ out[Len(out)].msg = "Reverting all changes in the working directory..."

(* C12: strict variant, the success lines printed so far are exactly the   *)
(* merge commands that exited 0, in order and with the same revision; so   *)
(* once the merge of a list position failed, the success lines are those   *)
(* of the positions before it and none is printed for it or a later one.   *)
C12_SuccessLinesMatchMerges ==
    variant = "strict"
    => /\ Len(SuccessLines) = Len(SuccessfulMerges)
       /\ \A k \in 1..Len(SuccessLines) :
            /\ SuccessLines[k].arg = SuccessfulMerges[k].arg
            /\ SuccessLines[k].arg = str(config.revisions[k])
       /\ \A k \in Issued("merge") :
            Failed(k) => Len(SuccessLines) = PositionOf(k) - 1

C12_Witness ==
    /\ variant = "strict"
    /\ Terminated
    /\ N = 2
    /\ Len(Merges) = 2
    /\ Merges[1].res = "ok"
    /\ Merges[2].res = "fail"
    /\ Len(SuccessLines) = 1
    /\ SuccessLines[1].arg = str(config.revisions[1])

(* C14 (as claimed): a run invokes the revert command at most once,        *)
(* whatever the commands return, a failing revert included.                *)
C14_AtMostOneRevert == Count("revert") <= 1

\* the step for the list position of the merge logged at k completed
\* without aborting: the merge exited 0, or the tool took over and exited 0
StepCompleted(k) == cmds[k].res = "ok" \/ HandedOver(k)

IsMergeAt(k) == cmds[k].op = "merge"

\* index in the log of the merge command of list position p
MergeAt(p) == SelectSeq([k \in Idx |-> k], IsMergeAt)[p]

(* C15: switch is the first command and is issued at most once; update is  *)
(* issued at most once, right after a switch that exited 0; a merge is     *)
(* issued only after an update that exited 0 and, past the first list      *)
(* position, only after the step of the position before completed; and     *)
(* only the last command of the log can be in flight.                      *)
C15_PhaseOrder ==
    /\ cmds # <<>> => cmds[1].op = "switch"
    /\ Count("switch") <= 1
    /\ Count("update") <= 1
    /\ \A k \in Issued("update") : k = 2 /\ cmds[1].res = "ok"
    /\ \A k \in Issued("merge") :
        /\ k > 2
        /\ cmds[2].op = "update" /\ cmds[2].res = "ok"
        /\ PositionOf(k) > 1 => /\ StepCompleted(MergeAt(PositionOf(k) - 1))
                                /\ \A j \in MergeAt(PositionOf(k) - 1)..k :
                                       cmds[j].op # "revert"
    /\ \A k \in Idx : cmds[k].res = "running" => k = Len(cmds)
    /\ (\E k \in Idx : cmds[k].res = "running")
          <=> pc \in {"switch_wait", "update_wait", "merge_wait",
                      "resolve_wait", "revert_wait"}

C15_Witness ==
    /\ variant = "interactive"
    /\ N = 2
    /\ Len(cmds) = 5
    /\ cmds[3].op = "merge" /\ cmds[3].res = "fail"
    /\ cmds[4].op = "tortoise" /\ cmds[4].res = "ok"
    /\ cmds[5].op = "merge" /\ cmds[5].res = "running"
    /\ pc = "merge_wait"

(* C16: the tool is launched only by the interactive variant, only as the  *)
(* command right after a merge command that exited non-zero, hence at most *)
(* once per list entry; a failed switch or update is followed by revert    *)
(* and exit status 1 with no tool launched, and a merge that exited 0 is   *)
(* never followed by the tool.                                             *)
C16_ToolOnlyAfterFailedMerge ==
    /\ \A k \in Issued("tortoise") :
        /\ variant = "interactive"
        /\ k > 1
        /\ cmds[k - 1].op = "merge"
        /\ cmds[k - 1].res = "fail"
    /\ Count("tortoise") <= Len(Merges)
    /\ \A k \in Idx :
        (cmds[k].op \in {"switch", "update"} /\ Failed(k))
        => /\ Count("tortoise") = 0
           /\ k = Len(cmds) => pc = "revert"
           /\ k < Len(cmds) => cmds[k + 1].op = "revert"
           /\ Terminated => exit = 1

C16_Witness ==
    /\ variant = "interactive"
    /\ Terminated
    /\ N = 2
    /\ Count("tortoise") = 2
    /\ Len(Merges) = 2
    /\ exit = 0

(* C17: once the revert command has been invoked, every later command is   *)
(* a revert, neither a success line nor the final line is printed after    *)
(* its notice, and the exit status is never 0, whether the revert exits 0  *)
(* or not.                                                                 *)
C17_RevertIsFinal ==
    LET A == AnnouncingLines IN
    \A k \in Issued("revert") :
        /\ \A j \in (k + 1)..Len(cmds) : cmds[j].op = "revert"
        /\ \A n \in (A[k] + 1)..Len(out) :
            out[n].msg \notin {"Successfully merged revision",
                               "All revisions processed!"}
        /\ exit # 0
        /\ Terminated => exit = 1

C17_Witness ==
    /\ Terminated
    /\ exit = 1
    /\ N = 2
    /\ Len(Merges) = 1
    /\ Merges[1].res = "fail"
    /\ Count("revert") = 2
    /\ cmds[Len(cmds) - 1].res = "fail"
    /\ cmds[Len(cmds)].res = "ok"

Waiting ==
    pc \in {"switch_wait", "update_wait", "merge_wait", "resolve_wait", "revert_wait"}

\* a step that is the return of the command in flight and nothing else
ReturnOfCommandInFlight ==
    /\ Len(cmds') = Len(cmds)
    /\ cmds[Len(cmds)].res = "running"
    /\ cmds'[Len(cmds)].res # "running"

(* C18: when every external command returns, every run of either variant   *)
(* ends in a terminal state with exit status 0 or 1, from which it takes   *)
(* no further step, having issued at most N merge commands; and while a    *)
(* command is in flight the only step the run can take is the return of    *)
(* that command, so a command that never returns leaves the run where it   *)
(* is, with no timeout and no revert issued meanwhile.                     *)
C18_Terminates ==
    /\ <>Terminated
    /\ [](Len(Merges) <= N)
    /\ [](Terminated => exit \in {0, 1})
    /\ [][~Terminated]_vars
    /\ [][Waiting => ReturnOfCommandInFlight]_vars

C18_Witness ==
    /\ variant = "interactive"
    /\ Terminated
    /\ exit = 1
    /\ N = 2
    /\ Len(Merges) = 2
    /\ Count("tortoise") = 2
    /\ Count("revert") = 3

====
